---- MODULE Spec2Model ----
(***************************************************************************)
(* Model of the adaptive cycle detector: detect_cycles (detection.py), the *)
(* persistence helpers (cycles_utils.py) and the per-record interactive    *)
(* loop of main (cli.py).                                                  *)
(*                                                                         *)
(* Specifications:                                                         *)
(*   Spec        a run of main over the records of the data directory;     *)
(*   SpecDetect  one call of detect_cycles on a frame built row by row;    *)
(*   SpecConfig  one call of detect_cycles with any signal and pattern;    *)
(*   SpecRepeat  calls of detect_cycles one after the other;               *)
(*   SpecRuns    main started again and again on one output directory;     *)
(*   SpecPrompt  a run of main with the lines typed at the accept and the  *)
(*               reprocess prompt kept;                                    *)
(*   SpecLive    Spec with a main that keeps running and an operator who   *)
(*               accepts and confirms in the end.                          *)
(*                                                                         *)
(* Encoding of Python values:                                              *)
(*   - sample values and thresholds are floats; they are modelled as       *)
(*     integers counting tenths (1.0 is 10, 0.5 is 5);                     *)
(*   - distance is a float number of seconds; it is modelled as an integer *)
(*     counting half seconds (2.0 s is 4), so that int(distance * fs)      *)
(*     truncates;                                                          *)
(*   - sample indices are 0-based as in numpy: At(x, i) is x[i];           *)
(*   - a DataFrame is a function from its column names to sequences.       *)
(***************************************************************************)
EXTENDS Integers, Sequences, FiniteSets, TLC

VARIABLES
    \* a call of detect_cycles on its own (SpecDetect)
    dData,                  \* the DataFrame handed to detect_cycles
    dArgs,                  \* the other arguments of the call, NoCall before it
    dResult,                \* what the call returned or raised
    dpc,                    \* "build" while the frame is filled, "returned" after
    dHistory,               \* the calls made one after the other (SpecRepeat): the
                            \* frame, the arguments and the result of each
    last_written,           \* the parameters handed to the latest call of
                            \* save_last_parameters that completed (SpecRuns),
                            \* Unbound before the first
    prompted,               \* the line typed at the Y/N prompt main stands at
                            \* (SpecPrompt), with the record, the prompt and the
                            \* retunes it was typed at
    \* main (cli.py): its local variables and its position
    pc,                     \* "start", "record", "reprocess_prompt", "accept_prompt",
                            \* "ginput", "validate_prompt", "done"
    idx,                    \* position of record_path in records, from 1
    opts,                   \* the command line options
    detection_parameters,
    prepared_data,          \* kept from line 70 to the end of the iteration only: the
                            \* next iteration assigns it at line 70 before any read
    sep_indices,            \* Unbound until first assigned
    cuts,                   \* sep_indices of manual_cutting, <<>> outside the call
    retunes,                \* answers N given at the accept prompt for this record
    \* the output directory
    cycle_files,            \* record -> content of <record>_cycles.json
    processed_log,          \* rows of processed_records.log
    last_parameters_file,   \* content of last_parameters.json
    \* what was echoed to the operator and what became of each record
    detect_err,             \* outcome of the latest detect_cycles call for the
                            \* current record, "none" before the first
    sep_from,               \* the record and the call that last assigned sep_indices
    outcome,                \* record -> "pending", "skipped", "aborted", "auto", "manual"
    seed,                   \* detection_parameters as set at the start of the run or
                            \* by the latest record that was saved in full
    detect_calls,           \* calls of detect_cycles made for the current record
    declined,               \* the cuts of the round the operator declined last for the
                            \* latest record processed, <<>> if none
    reported                \* the failure echoed when the latest record was left:
                            \* "none", "prepare", "unbound", "save_cycle_data", "log",
                            \* "save_last_parameters"

dvars == <<dData, dArgs, dResult, dpc, dHistory, last_written, prompted>>
mvars == <<pc, idx, opts, detection_parameters, prepared_data, sep_indices, cuts, retunes>>
fvars == <<cycle_files, processed_log, last_parameters_file>>
hvars == <<detect_err, sep_from, outcome, seed, detect_calls, declined, reported>>
vars == <<dvars, mvars, fvars, hvars>>

\* ------------------------------------------------------------------ bounds
\* longest series built sample by sample in SpecDetect
MaxLen == 6
\* records found in the data directory
NumRecords == 2
\* most answers N one record gets at the accept prompt
MaxRetunes == 1
\* most calls of detect_cycles made one after the other in SpecRepeat
MaxCalls == 3

\* ----------------------------------------------------------------- helpers
Abs(v) == IF v < 0 THEN -v ELSE v

\* x[i] with numpy's 0-based index
At(x, i) == x[i + 1]

\* int(num / den) of Python: truncation toward zero
IntTrunc(num, den) == IF num >= 0 THEN num \div den ELSE -((-num) \div den)

\* (mutant of np_abs) the series is taken as it is
np_abs_skipped(x) == x

\* np.abs(series)
np_abs(x) == [i \in 1..Len(x) |-> Abs(x[i])]

RECURSIVE InsertSorted(_, _)
InsertSorted(v, s) ==
    IF s = <<>> THEN <<v>>
    ELSE IF v <= Head(s) THEN <<v>> \o s
    ELSE <<Head(s)>> \o InsertSorted(v, Tail(s))

\* (mutant of np_sort) the concatenation is left as it is
np_sort_skipped(s) == s

\* np.sort: ascending, duplicates kept
RECURSIVE np_sort(_)
np_sort(s) == IF s = <<>> THEN <<>> ELSE InsertSorted(Head(s), np_sort(Tail(s)))

\* ------------------------------------------------- scipy.signal.find_peaks
\* first index a >= i_ahead with a = i_max or x[a] /= x[i]
RECURSIVE PlateauEnd(_, _, _)
PlateauEnd(x, i, a) ==
    IF a < Len(x) - 1 /\ At(x, a) = At(x, i) THEN PlateauEnd(x, i, a + 1) ELSE a

\* (mutant of local_maxima_1d) the scan runs to the last sample, which counts
\* as a maximum when it is above the one before it
RECURSIVE local_maxima_to_end(_, _)
local_maxima_to_end(x, i) ==
    IF i >= Len(x) THEN <<>>
    ELSE IF At(x, i - 1) < At(x, i)
         THEN LET a == PlateauEnd(x, i, i + 1)
              IN  IF a >= Len(x) \/ At(x, a) <= At(x, i)
                  THEN <<(i + (a - 1)) \div 2>> \o local_maxima_to_end(x, a + 1)
                  ELSE local_maxima_to_end(x, i + 1)
         ELSE local_maxima_to_end(x, i + 1)

\* local maxima of x scanning from index i: a sample (or the midpoint of a
\* flat run) strictly above the sample before it and the next different one;
\* the first and the last sample are never maxima
RECURSIVE local_maxima_1d(_, _)
local_maxima_1d(x, i) ==
    IF i >= Len(x) - 1 THEN <<>>
    ELSE IF At(x, i - 1) < At(x, i)
         THEN LET a == PlateauEnd(x, i, i + 1)
              IN  IF At(x, a) < At(x, i)
                  THEN <<(i + (a - 1)) \div 2>> \o local_maxima_1d(x, a + 1)
                  ELSE local_maxima_1d(x, i + 1)
         ELSE local_maxima_1d(x, i + 1)

\* (mutant of select_by_height) the height condition is not applied
select_by_height_skipped(x, peaks, height) == peaks

\* height condition: keep the peaks with height <= x[peak]
select_by_height(x, peaks, height) ==
    SelectSeq(peaks, LAMBDA p : height <= At(x, p))

\* distance condition: peaks are visited from the highest to the lowest (of
\* equal ones the later first, as the stable argsort read backwards gives);
\* a visited peak that is still kept discards every peak closer than distance
\* (mutant of select_by_peak_distance) a peak exactly distance away is
\* discarded as well
RECURSIVE select_by_peak_distance_inclusive(_, _, _, _, _)
select_by_peak_distance_inclusive(x, peaks, distance, keep, todo) ==
    IF todo = {} THEN keep
    ELSE LET j == CHOOSE c \in todo : \A k \in todo :
                      \/ At(x, peaks[k]) < At(x, peaks[c])
                      \/ (At(x, peaks[k]) = At(x, peaks[c]) /\ k <= c)
             near == {k \in 1..Len(peaks) : k /= j /\ Abs(peaks[j] - peaks[k]) <= distance}
         IN  IF j \in keep
             THEN select_by_peak_distance_inclusive(x, peaks, distance, keep \ near, todo \ {j})
             ELSE select_by_peak_distance_inclusive(x, peaks, distance, keep, todo \ {j})

RECURSIVE select_by_peak_distance(_, _, _, _, _)
select_by_peak_distance(x, peaks, distance, keep, todo) ==
    IF todo = {} THEN keep
    ELSE LET j == CHOOSE c \in todo : \A k \in todo :
                      \/ At(x, peaks[k]) < At(x, peaks[c])
                      \/ (At(x, peaks[k]) = At(x, peaks[c]) /\ k <= c)
             near == {k \in 1..Len(peaks) : k /= j /\ Abs(peaks[j] - peaks[k]) < distance}
         IN  IF j \in keep
             THEN select_by_peak_distance(x, peaks, distance, keep \ near, todo \ {j})
             ELSE select_by_peak_distance(x, peaks, distance, keep, todo \ {j})

RECURSIVE KeepAt(_, _, _)
KeepAt(peaks, keep, k) ==
    IF k > Len(peaks) THEN <<>>
    ELSE (IF k \in keep THEN <<peaks[k]>> ELSE <<>>) \o KeepAt(peaks, keep, k + 1)

\* the local maxima of x that pass the height and then the distance condition
peaks_of(x, height, distance) ==
    LET high == select_by_height(x, local_maxima_1d(x, 1), height)
        all  == 1..Len(high)
    IN  KeepAt(high, select_by_peak_distance(x, high, distance, all, all), 1)

\* find_peaks(x, height=height, distance=distance): ok is FALSE when it raises
\* ValueError('`distance` must be greater or equal to 1')
find_peaks(x, height, distance) ==
    IF distance < 1 THEN [ok |-> FALSE, peaks |-> <<>>]
    ELSE [ok |-> TRUE, peaks |-> peaks_of(x, height, distance)]

\* ------------------------------------------------------------ detect_cycles
valid_signals == {"position", "velocity", "abs_velocity"}
valid_patterns == {"on_peak", "between_peak", "both"}

\* a ValueError of detect_cycles: nothing is returned
Raise(e) == [err |-> e, sep_indices |-> <<>>]

\* (mutant of troughs_between) the mean is rounded up
troughs_rounded_up(p) == [i \in 1..(Len(p) - 1) |-> (p[i] + p[i + 1] + 1) \div 2]

\* (mutant of troughs_between) a peak on its own is its own trough
troughs_of_single_peak(p) ==
    IF Len(p) = 1 THEN p
    ELSE [i \in 1..(Len(p) - 1) |-> IntTrunc(p[i] + p[i + 1], 2)]

\* the mean index between each two consecutive peaks, cast to int
troughs_between(p) == [i \in 1..(Len(p) - 1) |-> IntTrunc(p[i] + p[i + 1], 2)]

\* (mutant of detect_on) the first and the last index are added before the
\* result is tested for being empty
detect_on_bounded_first(signal_data, threshold, distance, pattern, fs) ==
    LET min_distance == IntTrunc(distance * fs, 2)
        found == find_peaks(signal_data, threshold, min_distance)
        peaks == IF pattern \in {"on_peak", "both"} THEN found.peaks ELSE <<>>
        troughs == IF pattern \in {"between_peak", "both"}
                   THEN troughs_between(found.peaks) ELSE <<>>
        sep == (<<0>> \o np_sort(peaks \o troughs)) \o <<Len(signal_data) - 1>>
    IN  IF ~found.ok THEN Raise("peak_distance")
        ELSE IF pattern \in {"on_peak", "both"} /\ signal_data = <<>>
             THEN Raise("empty_series")
        ELSE IF sep = <<>> THEN Raise("no_cycles")
        ELSE [err |-> "none", sep_indices |-> sep]

\* the part of detect_cycles after the series is selected
detect_on(signal_data, threshold, distance, pattern, fs) ==
    LET min_distance == IntTrunc(distance * fs, 2)
        found == find_peaks(signal_data, threshold, min_distance)
        peaks == IF pattern \in {"on_peak", "both"} THEN found.peaks ELSE <<>>
        troughs == IF pattern \in {"between_peak", "both"}
                   THEN troughs_between(found.peaks) ELSE <<>>
        sep == np_sort(peaks \o troughs)
    IN  IF ~found.ok THEN Raise("peak_distance")
        ELSE IF pattern \in {"on_peak", "both"} /\ signal_data = <<>>
             THEN Raise("empty_series")
        ELSE IF sep = <<>> THEN Raise("no_cycles")
        ELSE [err |-> "none",
              sep_indices |-> (<<0>> \o sep) \o <<Len(signal_data) - 1>>]

\* (mutant of detect_cycles) both columns are required whatever the signal
detect_cycles_needs_both(data, threshold, distance, pattern, signal, fs) ==
    IF signal \notin valid_signals THEN Raise("invalid_signal")
    ELSE IF pattern \notin valid_patterns THEN Raise("invalid_pattern")
    ELSE IF "Position" \notin DOMAIN data THEN Raise("missing_position")
    ELSE IF "Velocity" \notin DOMAIN data THEN Raise("missing_velocity")
    ELSE IF signal = "position"
         THEN detect_on(data["Position"], threshold, distance, pattern, fs)
    ELSE IF signal = "velocity"
         THEN detect_on(data["Velocity"], threshold, distance, pattern, fs)
         ELSE detect_on(np_abs(data["Velocity"]), threshold, distance, pattern, fs)

\* (mutant of detect_cycles) the column of the signal is looked up before
\* the pattern is validated
detect_cycles_column_first(data, threshold, distance, pattern, signal, fs) ==
    IF signal \notin valid_signals THEN Raise("invalid_signal")
    ELSE IF signal = "position" /\ "Position" \notin DOMAIN data THEN Raise("missing_position")
    ELSE IF signal /= "position" /\ "Velocity" \notin DOMAIN data THEN Raise("missing_velocity")
    ELSE IF pattern \notin valid_patterns THEN Raise("invalid_pattern")
    ELSE IF signal = "position"
         THEN detect_on(data["Position"], threshold, distance, pattern, fs)
    ELSE IF signal = "velocity"
         THEN detect_on(data["Velocity"], threshold, distance, pattern, fs)
         ELSE detect_on(np_abs(data["Velocity"]), threshold, distance, pattern, fs)

\* (mutant of detect_cycles) the result of the call before is kept and
\* returned when this call finds no cycles
detect_cycles_remembers(data, threshold, distance, pattern, signal, fs) ==
    LET fresh ==
            IF signal \notin valid_signals THEN Raise("invalid_signal")
            ELSE IF pattern \notin valid_patterns THEN Raise("invalid_pattern")
            ELSE IF signal = "position"
                 THEN IF "Position" \notin DOMAIN data THEN Raise("missing_position")
                      ELSE detect_on(data["Position"], threshold, distance, pattern, fs)
            ELSE IF "Velocity" \notin DOMAIN data THEN Raise("missing_velocity")
            ELSE IF signal = "velocity"
                 THEN detect_on(data["Velocity"], threshold, distance, pattern, fs)
                 ELSE detect_on(np_abs(data["Velocity"]), threshold, distance, pattern, fs)
    IN  IF fresh.err = "no_cycles" THEN dResult ELSE fresh

detect_cycles(data, threshold, distance, pattern, signal, fs) ==
    IF signal \notin valid_signals THEN Raise("invalid_signal")
    ELSE IF pattern \notin valid_patterns THEN Raise("invalid_pattern")
    ELSE IF signal = "position"
         THEN IF "Position" \notin DOMAIN data THEN Raise("missing_position")
              ELSE detect_on(data["Position"], threshold, distance, pattern, fs)
    ELSE IF "Velocity" \notin DOMAIN data THEN Raise("missing_velocity")
    ELSE IF signal = "velocity"
         THEN detect_on(data["Velocity"], threshold, distance, pattern, fs)
         ELSE detect_on(np_abs(data["Velocity"]), threshold, distance, pattern, fs)

\* --------------------------------------------- detect_cycles on its own
NoCall == [called |-> FALSE]

\* one row of the frame: the Position and the Velocity sample
Samples == {<<0, 0>>, <<10, -6>>, <<6, 10>>}

\* the frames of the scenarios of the unit tests
ScenarioData ==
    { [Position |-> <<0, 10, 0, 10, 0, 10, 0>>, Velocity |-> <<0, -10, 0, 10, 0, -10, 0>>],
      [Position |-> <<1, 2, 1, 2, 1>>, Velocity |-> <<0, 0, 0, 0, 0>>] }

DThresholds == {5, 10}
DDistances == {1, 2, 3}
DFs == {1, 2}

\* no line was typed yet
NotPrompted == [answer |-> <<>>, stamp |-> <<0, "none", 0>>]

\* a variable not assigned yet, and one that holds v
Unbound == [bound |-> FALSE]
Bound(v) == [bound |-> TRUE, value |-> v]

DetectIdle ==
    /\ dData = [Position |-> <<>>, Velocity |-> <<>>]
    /\ dArgs = NoCall
    /\ dResult = Raise("none")
    /\ dpc = "build"
    /\ dHistory = <<>>
    /\ last_written = Unbound
    /\ prompted = NotPrompted

\* a frame with three maxima above both thresholds, 3 and 2 samples apart in
\* Position (the middle one the lowest) and 2 and 3 samples apart in Velocity
DistanceFrame ==
    [Position |-> <<0, 10, 0, 0, 6, 0, 10, 0>>, Velocity |-> <<0, 6, 0, 10, 0, 0, 10, 0>>]

\* the frames a call may start from: empty, or one of the scenarios
StartFrames == {[Position |-> <<>>, Velocity |-> <<>>]} \cup ScenarioData \cup {DistanceFrame}

\* one more row in the frame
DAppend(s) ==
    /\ dpc = "build"
    /\ Len(dData["Position"]) < MaxLen
    /\ dData' = [Position |-> Append(dData["Position"], s[1]),
                 Velocity |-> Append(dData["Velocity"], s[2])]
    /\ UNCHANGED <<dArgs, dResult, dpc, dHistory>>
    /\ UNCHANGED <<mvars, fvars, hvars, last_written, prompted>>

\* sep_indices = detect_cycles(data, threshold, distance, pattern, signal, fs)
DCall(threshold, distance, pattern, signal, fs) ==
    /\ dpc = "build"
    /\ dArgs' = [called |-> TRUE, threshold |-> threshold, distance |-> distance,
                 pattern |-> pattern, signal |-> signal, fs |-> fs]
    /\ dResult' = detect_cycles(dData, threshold, distance, pattern, signal, fs)
    /\ dpc' = "returned"
    /\ UNCHANGED <<dData, dHistory>>
    /\ UNCHANGED <<mvars, fvars, hvars, last_written, prompted>>

\* ------------------------------------------------ persistence (cycles_utils)
NoFile == [file |-> "absent"]
\* a file that was opened for writing and whose dump did not complete
Partial == [file |-> "partial"]
\* an option not given on the command line, and one given
NoneOpt == <<>>
Some(v) == <<v>>
Records == 1..NumRecords

\* dict[key] = value
SetKey(d, key, value) ==
    [k \in DOMAIN d \cup {key} |-> IF k = key THEN value ELSE d[k]]

default_parameters == [threshold |-> 10, distance |-> 4, pattern |-> "both"]

load_last_parameters(file) ==
    IF file \in {NoFile, Partial} THEN default_parameters ELSE file

\* (mutant of has_been_processed) any cycles file in the directory counts
has_been_processed_any_file(record_name, files) ==
    \E r \in DOMAIN files : files[r] /= NoFile

\* os.path.isfile on <record_name>_cycles.json
has_been_processed(record_name, files) == files[record_name] /= NoFile

cycles_file_name(record_name) == <<record_name, "_cycles.json">>

\* the keys of the dictionaries that are dumped, in insertion order
KeyOrder ==
    <<"record_name", "detection_parameters", "cycle_indices", "timestamp",
      "threshold", "distance", "pattern", "signal">>

\* the members json.dump writes for a dictionary without nested dictionaries
json_members(obj) ==
    LET keys == SelectSeq(KeyOrder, LAMBDA k : k \in DOMAIN obj)
    IN  [i \in 1..Len(keys) |-> <<keys[i], obj[keys[i]]>>]

\* json.dump: the members of the document in order, the nested dictionary of
\* detection_parameters dumped in its turn
json_dump(obj) ==
    LET keys == SelectSeq(KeyOrder, LAMBDA k : k \in DOMAIN obj)
    IN  [i \in 1..Len(keys) |->
           <<keys[i], IF keys[i] = "detection_parameters"
                      THEN json_members(obj[keys[i]])
                      ELSE obj[keys[i]]>>]

\* the dictionary json.load builds of members: the last member of a key wins
json_object(members) ==
    [k \in {members[i][1] : i \in 1..Len(members)} |->
        LET last == CHOOSE i \in 1..Len(members) :
                        /\ members[i][1] = k
                        /\ \A j \in (i + 1)..Len(members) : members[j][1] /= k
        IN  members[last][2]]

\* json.load of what json_dump wrote
json_load(members) ==
    LET outer == json_object(members)
    IN  [k \in DOMAIN outer |->
           IF k = "detection_parameters" THEN json_object(outer[k]) ELSE outer[k]]

\* datetime.now().isoformat(): the run the document was written in
Now == "this_run"
Earlier == "an_earlier_run"

\* (mutant of cycle_data) the indices are stored in ascending order
cycle_data_sorted(record_name, parameters, indices) ==
    [record_name |-> record_name,
     detection_parameters |-> parameters,
     cycle_indices |-> np_sort(indices),
     timestamp |-> Now]

\* the document save_cycle_data dumps; sep_indices.tolist() is the list of
\* the elements of the array
cycle_data(record_name, parameters, indices) ==
    [record_name |-> record_name,
     detection_parameters |-> parameters,
     cycle_indices |-> indices,
     timestamp |-> Now]

\* save_cycle_data when open and dump go through: the file, as json.load reads
\* it back
save_cycle_data(record_name, parameters, indices) ==
    json_load(json_dump(cycle_data(record_name, parameters, indices)))

\* (mutant of save_last_parameters) only the keys of the default are written
save_last_parameters_default_keys(parameters) ==
    [k \in DOMAIN default_parameters |-> parameters[k]]

\* save_last_parameters when open and dump go through: the file, as json.load
\* reads it back
save_last_parameters(parameters) == json_load(json_dump(parameters))

\* the row log_processed_record writes
log_row(record_name, parameters) ==
    [record_name |-> record_name,
     parameters_file |-> cycles_file_name(record_name),
     detection_parameters |-> parameters]

\* (mutant of log_processed_record) the row is written twice
log_processed_record_twice(log, record_name, parameters) ==
    Append(Append(log, log_row(record_name, parameters)), log_row(record_name, parameters))

\* (mutant of log_processed_record) the log is opened for writing, not for
\* appending
log_processed_record_truncates(log, record_name, parameters) ==
    <<log_row(record_name, parameters)>>

\* log_processed_record when the write goes through: open(log_file, 'a') and
\* one writerow
log_processed_record(log, record_name, parameters) ==
    Append(log, log_row(record_name, parameters))

\* what the file system may do to the three writes of one record
IoOutcomes ==
    {"ok", "cycles_open_fails", "cycles_dump_fails", "log_fails",
     "last_open_fails", "last_dump_fails"}

\* the cutoff frequency prepare_data_for_cycle_detection smooths with, in Hz
cutoff == 2
\* filtfilt pads a first order filter with 3 * max(len(a), len(b)) samples
padlen == 6

\* smooth_data_low_pass raises: butter wants 0 < cutoff / (0.5 * fs) < 1, and
\* filtfilt a series longer than its padding
smooth_data_low_pass_fails(rows, fs) ==
    \/ fs < 0
    \/ fs <= 2 * cutoff
    \/ rows <= padlen

\* (mutant of prepare_data_for_cycle_detection) the columns are not smoothed
prepare_data_for_cycle_detection_unsmoothed(table, fs, position_col) ==
    IF position_col = "" THEN [ok |-> FALSE, data |-> <<>>]
    ELSE IF position_col \notin table.columns THEN [ok |-> FALSE, data |-> <<>>]
    ELSE IF Len(table.smoothed["Position"]) < 2 THEN [ok |-> FALSE, data |-> <<>>]
    ELSE IF fs = 0 THEN [ok |-> FALSE, data |-> <<>>]
    ELSE [ok |-> TRUE, data |-> table.smoothed]

\* prepare_data_for_cycle_detection: the checks in the order of the code (the
\* column name, the column, np.gradient on fewer than two rows, fs, the
\* filter); the filtered frame is the table's smoothed field, what
\* smooth_data_low_pass makes of its columns
prepare_data_for_cycle_detection(table, fs, position_col) ==
    IF position_col = "" THEN [ok |-> FALSE, data |-> <<>>]
    ELSE IF position_col \notin table.columns THEN [ok |-> FALSE, data |-> <<>>]
    ELSE IF Len(table.smoothed["Position"]) < 2 THEN [ok |-> FALSE, data |-> <<>>]
    ELSE IF fs = 0 THEN [ok |-> FALSE, data |-> <<>>]
    ELSE IF smooth_data_low_pass_fails(Len(table.smoothed["Position"]), fs)
         THEN [ok |-> FALSE, data |-> <<>>]
    ELSE [ok |-> TRUE, data |-> table.smoothed]

\* ------------------------------------------------------------ main (cli.py)
\* the tables the records of the data directory may hold
Tables ==
    { [columns |-> {"Other"}, smoothed |-> <<>>],
      [columns |-> {"NeckFlexion"},
       smoothed |-> [Position |-> <<0, 10, 0, 10, 0, 10, 0>>,
                     Velocity |-> <<5, 0, -5, 0, 5, 0, -5>>]],
      [columns |-> {"NeckFlexion"},
       smoothed |-> [Position |-> <<1, 2, 1, 2, 1, 2, 1>>,
                     Velocity |-> <<1, 0, 0, 0, 0, 0, -1>>]],
      [columns |-> {"NeckFlexion"},
       smoothed |-> [Position |-> <<0, 10, 0>>, Velocity |-> <<5, 0, -5>>]] }

\* the command lines main is run with
CommandLines ==
    { [fs |-> 5, pattern |-> "both", signal |-> "position",
       threshold |-> NoneOpt, distance |-> NoneOpt, position_col |-> "NeckFlexion"],
      [fs |-> 5, pattern |-> "on_peak", signal |-> "position",
       threshold |-> Some(5), distance |-> Some(1), position_col |-> "NeckFlexion"],
      [fs |-> 0, pattern |-> "both", signal |-> "position",
       threshold |-> NoneOpt, distance |-> NoneOpt, position_col |-> "NeckFlexion"],
      [fs |-> -5, pattern |-> "both", signal |-> "position",
       threshold |-> NoneOpt, distance |-> NoneOpt, position_col |-> "NeckFlexion"],
      [fs |-> 5, pattern |-> "both", signal |-> "position",
       threshold |-> NoneOpt, distance |-> NoneOpt, position_col |-> ""] }

\* what the operator may type at the retune prompts
Thresholds == {20}
Distances == {1}
Patterns == {"between_peak"}
\* the lines the operator may type at a prompt with a default
Lines(values) == {NoneOpt} \cup {Some(v) : v \in values}
\* what the operator may type at a Y/N prompt
Answers == {<<>>, <<"Y">>, <<"n">>}
\* the x coordinates of the points of one ginput round, in half samples
ClickRounds == {<<>>, <<9, 3, -1>>, <<5>>}

\* the characters str.strip() removes at both ends
Whitespace == {" ", "\t"}

\* str.strip(): a line is the sequence of its characters
RECURSIVE str_strip(_)
str_strip(line) ==
    IF line = <<>> THEN <<>>
    ELSE IF Head(line) \in Whitespace THEN str_strip(Tail(line))
    ELSE IF line[Len(line)] \in Whitespace THEN str_strip(SubSeq(line, 1, Len(line) - 1))
    ELSE line

\* str.lower(), on the letters an answer is typed with
str_lower(line) ==
    [i \in 1..Len(line) |->
        CASE line[i] = "Y" -> "y"
          [] line[i] = "N" -> "n"
          [] line[i] = "E" -> "e"
          [] line[i] = "S" -> "s"
          [] OTHER -> line[i]]

\* (mutant of IsYes) the answer is not stripped
IsYes_unstripped(answer, default) ==
    LET given == IF answer = <<>> THEN default ELSE answer
    IN  str_lower(given) = <<"y">>

\* click.prompt(..., default=default) and answer.strip().lower() == 'y': an
\* empty line gives the default
IsYes(answer, default) ==
    LET given == IF answer = <<>> THEN default ELSE answer
    IN  str_lower(str_strip(given)) = <<"y">>

\* what an earlier run left in the output directory for a record
PriorParameters == SetKey(default_parameters, "signal", "position")
PriorCycles(r) == [cycle_data(r, PriorParameters, <<0, 5, 6>>) EXCEPT !.timestamp = Earlier]

InitMain ==
    /\ pc = "start"
    /\ idx = 1
    /\ opts \in CommandLines
    /\ detection_parameters = Unbound
    /\ prepared_data = Unbound
    /\ sep_indices = Unbound
    /\ cuts = <<>>
    /\ retunes = 0
    /\ cycle_files \in [Records -> {NoFile}] \cup {[r \in Records |-> IF r = k THEN PriorCycles(r) ELSE NoFile] : k \in Records}
    /\ processed_log = SelectSeq([r \in Records |-> log_row(r, PriorParameters)],
                                 LAMBDA row : cycle_files[row.record_name] /= NoFile)
    /\ last_parameters_file = IF \E r \in Records : cycle_files[r] /= NoFile
                              THEN PriorParameters ELSE NoFile
    /\ detect_err = "none"
    /\ sep_from = [record |-> 0, by |-> "nothing"]
    /\ outcome = [r \in Records |-> "pending"]
    /\ seed = Unbound
    /\ detect_calls = 0
    /\ declined = <<>>
    /\ reported = "none"

\* lines 30-39: the seed of the run
Start ==
    /\ pc = "start"
    /\ LET loaded == load_last_parameters(last_parameters_file)
           p1 == SetKey(SetKey(loaded, "pattern", opts.pattern), "signal", opts.signal)
           p2 == IF opts.threshold /= NoneOpt THEN SetKey(p1, "threshold", opts.threshold[1]) ELSE p1
           p3 == IF opts.distance /= NoneOpt THEN SetKey(p2, "distance", opts.distance[1]) ELSE p2
       IN  detection_parameters' = p3 /\ seed' = p3
    /\ pc' = IF NumRecords = 0 THEN "done" ELSE "record"
    /\ UNCHANGED <<idx, opts, prepared_data, sep_indices, cuts, retunes>>
    /\ UNCHANGED <<detect_err, sep_from, outcome, detect_calls, declined, reported>>
    /\ UNCHANGED <<fvars, dvars>>

\* line 143, after the last record
Finish ==
    /\ pc = "record"
    /\ idx > NumRecords
    /\ pc' = "done"
    /\ UNCHANGED <<idx, opts, detection_parameters, prepared_data, sep_indices, cuts, retunes>>
    /\ UNCHANGED <<fvars, hvars, dvars>>

\* (mutant of LeaveRecord) an error ends the run instead of the record
LeaveRecord_error_ends_run(how) ==
    /\ outcome' = [outcome EXCEPT ![idx] = how]
    /\ seed' = IF how \in {"auto", "manual"} THEN detection_parameters ELSE seed
    /\ idx' = IF how = "aborted" THEN idx ELSE idx + 1
    /\ pc' = IF how = "aborted" THEN "done" ELSE "record"
    /\ prepared_data' = Unbound
    /\ cuts' = <<>>
    /\ retunes' = 0
    /\ detect_err' = "none"
    /\ detect_calls' = 0

\* (mutant of LeaveRecord) the continue of line 63 takes the same record again
LeaveRecord_skip_stays(how) ==
    /\ outcome' = [outcome EXCEPT ![idx] = how]
    /\ seed' = IF how \in {"auto", "manual"} THEN detection_parameters ELSE seed
    /\ idx' = IF how = "skipped" THEN idx ELSE idx + 1
    /\ pc' = "record"
    /\ prepared_data' = Unbound
    /\ cuts' = <<>>
    /\ retunes' = 0
    /\ detect_err' = "none"
    /\ detect_calls' = 0

\* the except clause of lines 138-141, the continue of line 63 and the end of
\* the loop body: on to the next record. What the iteration leaves behind and
\* the next one overwrites before reading (prepared_data, the cuts of
\* manual_cutting) is forgotten, and the per-record history starts afresh.
LeaveRecord(how) ==
    /\ outcome' = [outcome EXCEPT ![idx] = how]
    /\ seed' = IF how \in {"auto", "manual"} THEN detection_parameters ELSE seed
    /\ idx' = idx + 1
    /\ pc' = "record"
    /\ prepared_data' = Unbound
    /\ cuts' = <<>>
    /\ retunes' = 0
    /\ detect_err' = "none"
    /\ detect_calls' = 0

\* lines 77-95: one detection attempt, shown, up to the accept prompt
DetectAndShow(parameters, data) ==
    LET r == detect_cycles(data, parameters["threshold"], parameters["distance"],
                           parameters["pattern"], parameters["signal"], opts.fs)
    IN  /\ detect_err' = r.err
        /\ detect_calls' = detect_calls + 1
        /\ IF r.err = "none"
           THEN /\ sep_indices' = Bound(r.sep_indices)
                /\ sep_from' = [record |-> idx, by |-> "detect"]
           ELSE UNCHANGED <<sep_indices, sep_from>>
        /\ pc' = "accept_prompt"
        /\ UNCHANGED <<idx, outcome, seed, reported>>

\* lines 65-95: load, prepare and the first detection of the record
Process(table) ==
    LET prepared == prepare_data_for_cycle_detection(table, opts.fs, opts.position_col)
    IN  /\ IF prepared.ok
           THEN /\ prepared_data' = Bound(prepared.data)
                /\ DetectAndShow(detection_parameters, prepared.data)
                /\ UNCHANGED <<cuts, retunes>>
           ELSE /\ LeaveRecord("aborted")
                /\ reported' = "prepare"
                /\ UNCHANGED <<sep_indices, sep_from>>
        /\ declined' = <<>>
        /\ UNCHANGED <<opts, detection_parameters>>
        /\ UNCHANGED <<fvars, dvars>>

\* lines 57-61: the record has a cycles file, the operator is asked
GateAsk ==
    /\ pc = "record"
    /\ idx <= NumRecords
    /\ has_been_processed(idx, cycle_files)
    /\ pc' = "reprocess_prompt"
    /\ UNCHANGED <<idx, opts, detection_parameters, prepared_data, sep_indices, cuts, retunes>>
    /\ UNCHANGED <<fvars, hvars, dvars>>

\* lines 57, 65-95: a record without a cycles file is processed
BeginRecord(table) ==
    /\ pc = "record"
    /\ idx <= NumRecords
    /\ ~has_been_processed(idx, cycle_files)
    /\ Process(table)

\* (mutant of ReprocessAnswer) a declined record still has the parameters
\* saved as last used
ReprocessAnswer_saves_on_decline(answer, table) ==
    /\ pc = "reprocess_prompt"
    /\ IF IsYes(answer, <<"N">>)
       THEN Process(table)
       ELSE /\ LeaveRecord("skipped")
            /\ reported' = "none"
            /\ last_parameters_file' = save_last_parameters(detection_parameters)
            /\ UNCHANGED <<cycle_files, processed_log>>
            /\ UNCHANGED <<opts, detection_parameters, sep_indices, sep_from, declined>>
            /\ UNCHANGED dvars

\* lines 60-63: the answer at the reprocess prompt
ReprocessAnswer(answer, table) ==
    /\ pc = "reprocess_prompt"
    /\ IF IsYes(answer, <<"N">>)
       THEN Process(table)
       ELSE /\ LeaveRecord("skipped")
            /\ reported' = "none"
            /\ UNCHANGED <<opts, detection_parameters, sep_indices, sep_from, declined>>
            /\ UNCHANGED <<fvars, dvars>>

\* (mutant of Persist) last_parameters.json receives the parameters the run or
\* the latest saved record left, not those of this record
Persist_last_not_updated(sep, by, io) ==
    LET doc == save_cycle_data(idx, detection_parameters, sep.value)
        written == [cycle_files EXCEPT ![idx] = doc]
    IN  IF sep = Unbound
        THEN \* UnboundLocalError at line 131
             LeaveRecord("aborted") /\ reported' = "unbound" /\ UNCHANGED fvars
        ELSE CASE io = "cycles_open_fails" ->
                    /\ LeaveRecord("aborted")
                    /\ reported' = "save_cycle_data"
                    /\ UNCHANGED fvars
               [] io = "cycles_dump_fails" ->
                    /\ LeaveRecord("aborted")
                    /\ reported' = "save_cycle_data"
                    /\ cycle_files' = [cycle_files EXCEPT ![idx] = Partial]
                    /\ UNCHANGED <<processed_log, last_parameters_file>>
               [] io = "log_fails" ->
                    /\ LeaveRecord(by)
                    /\ reported' = "log"
                    /\ cycle_files' = written
                    /\ last_parameters_file' = save_last_parameters(seed)
                    /\ UNCHANGED processed_log
               [] io = "last_open_fails" ->
                    /\ LeaveRecord("aborted")
                    /\ reported' = "save_last_parameters"
                    /\ cycle_files' = written
                    /\ processed_log' = log_processed_record(processed_log, idx, detection_parameters)
                    /\ UNCHANGED last_parameters_file
               [] io = "last_dump_fails" ->
                    /\ LeaveRecord("aborted")
                    /\ reported' = "save_last_parameters"
                    /\ cycle_files' = written
                    /\ processed_log' = log_processed_record(processed_log, idx, detection_parameters)
                    /\ last_parameters_file' = Partial
               [] OTHER ->
                    /\ LeaveRecord(by)
                    /\ reported' = "none"
                    /\ cycle_files' = written
                    /\ processed_log' = log_processed_record(processed_log, idx, detection_parameters)
                    /\ last_parameters_file' = save_last_parameters(seed)

\* lines 130-136: save_cycle_data, log_processed_record, save_last_parameters,
\* with sep the value of sep_indices they are handed
Persist(sep, by, io) ==
    LET doc == save_cycle_data(idx, detection_parameters, sep.value)
        written == [cycle_files EXCEPT ![idx] = doc]
    IN  IF sep = Unbound
        THEN \* UnboundLocalError at line 131
             LeaveRecord("aborted") /\ reported' = "unbound" /\ UNCHANGED fvars
        ELSE CASE io = "cycles_open_fails" ->
                    /\ LeaveRecord("aborted")
                    /\ reported' = "save_cycle_data"
                    /\ UNCHANGED fvars
               [] io = "cycles_dump_fails" ->
                    /\ LeaveRecord("aborted")
                    /\ reported' = "save_cycle_data"
                    /\ cycle_files' = [cycle_files EXCEPT ![idx] = Partial]
                    /\ UNCHANGED <<processed_log, last_parameters_file>>
               [] io = "log_fails" ->
                    /\ LeaveRecord(by)
                    /\ reported' = "log"
                    /\ cycle_files' = written
                    /\ last_parameters_file' = save_last_parameters(detection_parameters)
                    /\ UNCHANGED processed_log
               [] io = "last_open_fails" ->
                    /\ LeaveRecord("aborted")
                    /\ reported' = "save_last_parameters"
                    /\ cycle_files' = written
                    /\ processed_log' = log_processed_record(processed_log, idx, detection_parameters)
                    /\ UNCHANGED last_parameters_file
               [] io = "last_dump_fails" ->
                    /\ LeaveRecord("aborted")
                    /\ reported' = "save_last_parameters"
                    /\ cycle_files' = written
                    /\ processed_log' = log_processed_record(processed_log, idx, detection_parameters)
                    /\ last_parameters_file' = Partial
               [] OTHER ->
                    /\ LeaveRecord(by)
                    /\ reported' = "none"
                    /\ cycle_files' = written
                    /\ processed_log' = log_processed_record(processed_log, idx, detection_parameters)
                    /\ last_parameters_file' = save_last_parameters(detection_parameters)

\* lines 95-98, 130-136: the operator accepts what is displayed
AcceptAnswer(answer, io) ==
    /\ pc = "accept_prompt"
    /\ IsYes(answer, <<"Y">>)
    /\ Persist(sep_indices, "auto", io)
    /\ UNCHANGED <<opts, detection_parameters, sep_indices, sep_from, declined>>
    /\ UNCHANGED dvars

\* click.prompt(..., default=current): an empty line gives the default
Typed(line, default) == IF line = NoneOpt THEN default ELSE line[1]

\* (mutant of Retune) an empty line at a prompt gives the default of
\* load_last_parameters, not the current value
Retune_empty_gives_default(answer, threshold, distance, pattern, manual) ==
    /\ pc = "accept_prompt"
    /\ ~IsYes(answer, <<"Y">>)
    /\ retunes < MaxRetunes
    /\ retunes' = retunes + 1
    /\ LET p1 == SetKey(detection_parameters, "threshold", Typed(threshold, default_parameters["threshold"]))
           p2 == SetKey(p1, "distance", Typed(distance, default_parameters["distance"]))
           p3 == SetKey(p2, "pattern", Typed(pattern, default_parameters["pattern"]))
       IN  /\ detection_parameters' = p3
           /\ IF IsYes(manual, <<"N">>)
              THEN /\ pc' = "ginput"
                   /\ cuts' = <<>>
                   /\ UNCHANGED <<idx, sep_indices>>
                   /\ UNCHANGED hvars
              ELSE /\ DetectAndShow(p3, prepared_data.value)
                   /\ UNCHANGED <<cuts, declined>>
    /\ UNCHANGED <<opts, prepared_data>>
    /\ UNCHANGED <<fvars, dvars>>

\* lines 99-128 and back to 77-95: the operator answers N, types a threshold,
\* a distance and a pattern (or an empty line), and asks for manual cutting or
\* not
Retune(answer, threshold, distance, pattern, manual) ==
    /\ pc = "accept_prompt"
    /\ ~IsYes(answer, <<"Y">>)
    /\ retunes < MaxRetunes
    /\ retunes' = retunes + 1
    /\ LET p1 == SetKey(detection_parameters, "threshold", Typed(threshold, detection_parameters["threshold"]))
           p2 == SetKey(p1, "distance", Typed(distance, detection_parameters["distance"]))
           p3 == SetKey(p2, "pattern", Typed(pattern, detection_parameters["pattern"]))
       IN  /\ detection_parameters' = p3
           /\ IF IsYes(manual, <<"N">>)
              THEN /\ pc' = "ginput"
                   /\ cuts' = <<>>
                   /\ UNCHANGED <<idx, sep_indices>>
                   /\ UNCHANGED hvars
              ELSE /\ DetectAndShow(p3, prepared_data.value)
                   /\ UNCHANGED <<cuts, declined>>
    /\ UNCHANGED <<opts, prepared_data>>
    /\ UNCHANGED <<fvars, dvars>>

\* (mutant of Ginput) x is rounded to the nearest sample
Ginput_rounds(points) ==
    /\ pc = "ginput"
    /\ LET clicked == [i \in 1..Len(points) |-> (points[i] + 1) \div 2]
       IN  IF clicked = <<>>
           THEN UNCHANGED <<pc, cuts>>
           ELSE /\ cuts' = clicked
                /\ pc' = "validate_prompt"
    /\ UNCHANGED <<idx, opts, detection_parameters, prepared_data, sep_indices, retunes>>
    /\ UNCHANGED <<fvars, hvars, dvars>>

\* manual_cutting lines 243-269: one round of points; x is truncated to int
Ginput(points) ==
    /\ pc = "ginput"
    /\ LET clicked == [i \in 1..Len(points) |-> IntTrunc(points[i], 2)]
       IN  IF clicked = <<>>
           THEN UNCHANGED <<pc, cuts>>
           ELSE /\ cuts' = clicked
                /\ pc' = "validate_prompt"
    /\ UNCHANGED <<idx, opts, detection_parameters, prepared_data, sep_indices, retunes>>
    /\ UNCHANGED <<fvars, hvars, dvars>>

\* (mutant of Validate) the manual cuts are put in ascending order before
\* they are saved
Validate_sorts_cuts(answer, io) ==
    /\ pc = "validate_prompt"
    /\ IF IsYes(answer, <<"Y">>)
       THEN /\ sep_indices' = Bound(np_sort(cuts))
            /\ sep_from' = [record |-> idx, by |-> "manual"]
            /\ Persist(Bound(np_sort(cuts)), "manual", io)
            /\ UNCHANGED declined
       ELSE /\ pc' = "ginput"
            /\ cuts' = <<>>
            /\ declined' = cuts
            /\ UNCHANGED <<idx, sep_indices, prepared_data, retunes>>
            /\ UNCHANGED <<detect_err, sep_from, outcome, seed, detect_calls, reported>>
            /\ UNCHANGED fvars
    /\ UNCHANGED <<opts, detection_parameters>>
    /\ UNCHANGED dvars

\* manual_cutting lines 272-279, then lines 123-136
Validate(answer, io) ==
    /\ pc = "validate_prompt"
    /\ IF IsYes(answer, <<"Y">>)
       THEN /\ sep_indices' = Bound(cuts)
            /\ sep_from' = [record |-> idx, by |-> "manual"]
            /\ Persist(Bound(cuts), "manual", io)
            /\ UNCHANGED declined
       ELSE /\ pc' = "ginput"
            /\ cuts' = <<>>
            /\ declined' = cuts
            /\ UNCHANGED <<idx, sep_indices, prepared_data, retunes>>
            /\ UNCHANGED <<detect_err, sep_from, outcome, seed, detect_calls, reported>>
            /\ UNCHANGED fvars
    /\ UNCHANGED <<opts, detection_parameters>>
    /\ UNCHANGED dvars

Init == InitMain /\ DetectIdle

Next ==
    \/ Start
    \/ Finish
    \/ GateAsk
    \/ \E table \in Tables : BeginRecord(table)
    \/ \E answer \in Answers, table \in Tables : ReprocessAnswer(answer, table)
    \/ \E answer \in Answers, io \in IoOutcomes : AcceptAnswer(answer, io)
    \/ \E answer \in Answers, threshold \in Lines(Thresholds), distance \in Lines(Distances),
          pattern \in Lines(Patterns), manual \in Answers :
            Retune(answer, threshold, distance, pattern, manual)
    \/ \E points \in ClickRounds : Ginput(points)
    \/ \E answer \in Answers, io \in IoOutcomes : Validate(answer, io)

Spec == Init /\ [][Next]_vars

\* main at rest while detect_cycles is called on its own
MainIdle ==
    /\ pc = "done"
    /\ idx = 1
    /\ opts = [fs |-> 1]
    /\ detection_parameters = Unbound
    /\ prepared_data = Unbound
    /\ sep_indices = Unbound
    /\ cuts = <<>>
    /\ retunes = 0
    /\ cycle_files = [r \in Records |-> NoFile]
    /\ processed_log = <<>>
    /\ last_parameters_file = NoFile
    /\ detect_err = "none"
    /\ sep_from = [record |-> 0, by |-> "nothing"]
    /\ outcome = [r \in Records |-> "pending"]
    /\ seed = Unbound
    /\ detect_calls = 0
    /\ declined = <<>>
    /\ reported = "none"

NextDetect ==
    \/ \E s \in Samples : DAppend(s)
    \/ \E threshold \in DThresholds, distance \in DDistances, pattern \in valid_patterns,
          signal \in valid_signals, fs \in DFs :
            DCall(threshold, distance, pattern, signal, fs)

InitDetect ==
    /\ dData \in StartFrames
    /\ dArgs = NoCall
    /\ dResult = Raise("none")
    /\ dpc = "build"
    /\ dHistory = <<>>
    /\ last_written = Unbound
    /\ prompted = NotPrompted
    /\ MainIdle

SpecDetect == InitDetect /\ [][NextDetect]_vars

\* ------------------------- detect_cycles called with any signal and pattern
\* frames with peaks, without any, without rows, and without one of the columns
ConfigFrames ==
    { [Position |-> <<0, 10, 0, 10, 0, 10, 0>>, Velocity |-> <<0, -10, 0, 10, 0, -10, 0>>],
      [Position |-> <<1, 2, 1, 2, 1>>, Velocity |-> <<0, 0, 0, 0, 0>>],
      [Position |-> <<>>, Velocity |-> <<>>],
      [Position |-> <<0, 10, 0, 10, 0>>],
      [Velocity |-> <<0, 10, 0, 10, 0>>] }

\* the signal and pattern arguments a caller may pass: the valid ones, the
\* invalid ones of the unit tests, and a valid one in another case
AnySignals == valid_signals \cup {"invalid_signal", "Position"}
AnyPatterns == valid_patterns \cup {"invalid_pattern", "Both"}

NextConfig ==
    \E threshold \in DThresholds, distance \in DDistances, pattern \in AnyPatterns,
       signal \in AnySignals, fs \in DFs :
         DCall(threshold, distance, pattern, signal, fs)

InitConfig ==
    /\ dData \in ConfigFrames
    /\ dArgs = NoCall
    /\ dResult = Raise("none")
    /\ dpc = "build"
    /\ dHistory = <<>>
    /\ last_written = Unbound
    /\ prompted = NotPrompted
    /\ MainIdle

SpecConfig == InitConfig /\ [][NextConfig]_vars

\* ------------------------------- detect_cycles called again and again
\* the frames of the repeated calls
RepeatFrames == ScenarioData \cup {DistanceFrame}

\* another frame is at hand for the next call
RLoad(frame) ==
    /\ frame /= dData
    /\ dData' = frame
    /\ UNCHANGED <<dArgs, dResult, dpc, dHistory>>
    /\ UNCHANGED <<mvars, fvars, hvars, last_written, prompted>>

\* one more call of detect_cycles on the frame at hand, with two samples of
\* separation on the Position column
RCall(threshold, pattern) ==
    LET args == [called |-> TRUE, threshold |-> threshold, distance |-> 2,
                 pattern |-> pattern, signal |-> "position", fs |-> 2]
        result == detect_cycles(dData, threshold, 2, pattern, "position", 2)
    IN  /\ Len(dHistory) < MaxCalls
        /\ dArgs' = args
        /\ dResult' = result
        /\ dpc' = "returned"
        /\ dHistory' = Append(dHistory, [data |-> dData, args |-> args, result |-> result])
        /\ UNCHANGED dData
        /\ UNCHANGED <<mvars, fvars, hvars, last_written, prompted>>

NextRepeat ==
    \/ \E frame \in RepeatFrames : RLoad(frame)
    \/ \E threshold \in DThresholds, pattern \in valid_patterns : RCall(threshold, pattern)

InitRepeat ==
    /\ dData \in RepeatFrames
    /\ dArgs = NoCall
    /\ dResult = Raise("none")
    /\ dpc = "build"
    /\ dHistory = <<>>
    /\ last_written = Unbound
    /\ prompted = NotPrompted
    /\ MainIdle

SpecRepeat == InitRepeat /\ [][NextRepeat]_vars

\* ===================================================== detect_cycles, claims
\* the series the call of detect_cycles worked on
CalledSeries ==
    IF dArgs.signal = "position" THEN dData["Position"]
    ELSE IF dArgs.signal = "velocity" THEN dData["Velocity"]
    ELSE np_abs(dData["Velocity"])

CalledMinDistance == IntTrunc(dArgs.distance * dArgs.fs, 2)

Returned == dpc = "returned" /\ dResult.err = "none"

\* the peak set P of the called series, and the indices the pattern selects
CalledPeaks == peaks_of(CalledSeries, dArgs.threshold, CalledMinDistance)

Midpoints(P) == {(P[i] + P[i + 1]) \div 2 : i \in 1..(Len(P) - 1)}

SelectedIndices ==
    LET P == CalledPeaks
        on == {P[i] : i \in 1..Len(P)}
    IN  CASE dArgs.pattern = "on_peak" -> on
          [] dArgs.pattern = "between_peak" -> Midpoints(P)
          [] OTHER -> on \cup Midpoints(P)

\* the elements of a set of integers in ascending order
RECURSIVE Ascending(_)
Ascending(S) ==
    IF S = {} THEN <<>>
    ELSE LET m == CHOOSE v \in S : \A w \in S : v <= w
         IN  <<m>> \o Ascending(S \ {m})

ScenarioA == [Position |-> <<0, 10, 0, 10, 0, 10, 0>>, Velocity |-> <<0, -10, 0, 10, 0, -10, 0>>]

ScenarioArgs(pattern) ==
    [called |-> TRUE, threshold |-> 5, distance |-> 2, pattern |-> pattern,
     signal |-> "position", fs |-> 1]

C8_StrictlyAscending ==
    Returned =>
        LET s == dResult.sep_indices
        IN  \A i \in 1..(Len(s) - 1) : s[i] < s[i + 1]

\* a returned sequence whose selected indices touch both ends: 1 right after
\* the added 0 and len - 2 right before the added last index
C8_Witness ==
    /\ Returned
    /\ LET s == dResult.sep_indices
       IN  /\ Len(s) >= 4
           /\ s[2] = 1
           /\ s[Len(s) - 1] = Len(CalledSeries) - 2

\* C9 as stated: detect_cycles fails exactly when the selected peaks and troughs
\* are none, and returns normally whenever there are some.
C9_FailsIffNothingSelected ==
    dpc = "returned" => ((dResult.err /= "none") <=> (SelectedIndices = {}))

\* C9 amended: with int(distance * fs) >= 1 detect_cycles fails exactly when the
\* selected peaks and troughs are none (with "No cycles detected" unless the
\* series is empty), returns nothing then, and returns normally otherwise;
\* with int(distance * fs) < 1 it always fails, peak extraction refusing a
\* separation below one sample whatever the peaks.
C9_FailsIffNothingSelectedOrNoSeparation ==
    dpc = "returned" =>
        IF CalledMinDistance >= 1
        THEN /\ (dResult.err /= "none") <=> (SelectedIndices = {})
             /\ dResult.err /= "none" => dResult.sep_indices = <<>>
             /\ (SelectedIndices = {} /\ CalledSeries /= <<>>) => dResult.err = "no_cycles"
        ELSE dResult.err = "peak_distance" /\ dResult.sep_indices = <<>>

\* a call that failed with "No cycles detected" on a series that has a peak
\* above the threshold (pattern between_peak, a single peak)
C9_Witness ==
    /\ dpc = "returned"
    /\ dResult.err = "no_cycles"
    /\ CalledMinDistance >= 1
    /\ Len(CalledPeaks) = 1

CalledHigh == select_by_height(CalledSeries, local_maxima_1d(CalledSeries, 1), dArgs.threshold)

Elements(s) == {s[i] : i \in 1..Len(s)}

\* the indices the call returned between the added 0 and last index
ReturnedInner == Elements(SubSeq(dResult.sep_indices, 2, Len(dResult.sep_indices) - 1))

\* the peaks are in the result, and any two of them are at least
\* int(distance * fs) samples apart
PeaksApart ==
    /\ Elements(CalledPeaks) \subseteq ReturnedInner
    /\ dArgs.pattern = "on_peak" => ReturnedInner = Elements(CalledPeaks)
    /\ \A a, b \in Elements(CalledPeaks) : a /= b => Abs(a - b) >= CalledMinDistance

\* C11 as stated: in every result the peak-contributed indices are at least
\* int(distance * fs) samples apart, and two local maxima reaching the
\* threshold that are exactly that many samples apart are both kept.
C11_ApartAndExactlyApartKept ==
    (Returned /\ dArgs.pattern \in {"on_peak", "both"}) =>
        /\ PeaksApart
        /\ \A a, b \in Elements(CalledHigh) :
              Abs(a - b) = CalledMinDistance =>
                  {a, b} \subseteq Elements(CalledPeaks) \cap ReturnedInner

\* C11 amended: in every result the peak-contributed indices are at least
\* int(distance * fs) samples apart, and two local maxima reaching the
\* threshold that are exactly that many samples apart do not exclude each
\* other: both are kept when no other local maximum reaching the threshold is
\* closer than that to either of them.
C11_ApartAndExactlyApartNotExcluded ==
    (Returned /\ dArgs.pattern \in {"on_peak", "both"}) =>
        /\ PeaksApart
        /\ \A a, b \in Elements(CalledHigh) :
              (/\ Abs(a - b) = CalledMinDistance
               /\ \A c \in Elements(CalledHigh) \ {a, b} :
                     Abs(c - a) >= CalledMinDistance /\ Abs(c - b) >= CalledMinDistance)
              => {a, b} \subseteq Elements(CalledPeaks) \cap ReturnedInner

\* the distance test of the unit tests: [0, 1, 0.6, 1, 0] with two samples of
\* separation, the maxima at 1 and 3 both returned
C11_Witness ==
    /\ Returned
    /\ dArgs.pattern = "on_peak"
    /\ CalledSeries = <<0, 10, 6, 10, 0>>
    /\ CalledMinDistance = 2
    /\ dResult.sep_indices = <<0, 1, 3, 4>>

C20_ConfigurationValidatedFirst ==
    dpc = "returned" =>
        /\ dArgs.signal \notin valid_signals => dResult = Raise("invalid_signal")
        /\ (dArgs.signal \in valid_signals /\ dArgs.pattern \notin valid_patterns) =>
              dResult = Raise("invalid_pattern")
        /\ dResult.err \in {"invalid_signal", "invalid_pattern"} =>
              (dArgs.signal \notin valid_signals \/ dArgs.pattern \notin valid_patterns)

\* an invalid pattern reported on a frame that lacks the column of the signal
C20_Witness ==
    /\ dpc = "returned"
    /\ dArgs.signal = "velocity"
    /\ dArgs.pattern = "invalid_pattern"
    /\ "Velocity" \notin DOMAIN dData
    /\ dResult.err = "invalid_pattern"

\* the call was made with a valid signal and a valid pattern
ValidCall ==
    dpc = "returned" /\ dArgs.signal \in valid_signals /\ dArgs.pattern \in valid_patterns

\* the column the signal of the call is read from
RequiredColumn == IF dArgs.signal = "position" THEN "Position" ELSE "Velocity"

\* C21: with a valid signal and pattern, detect_cycles fails for a missing
\* column exactly when the column of the selected signal is absent: Position
\* for position, Velocity for velocity and abs_velocity; the other column may
\* be absent without error.
C21_MissingColumnOfSelectedSignal ==
    ValidCall =>
        /\ (dArgs.signal = "position" /\ "Position" \notin DOMAIN dData) =>
              dResult = Raise("missing_position")
        /\ (dArgs.signal \in {"velocity", "abs_velocity"} /\ "Velocity" \notin DOMAIN dData) =>
              dResult = Raise("missing_velocity")
        /\ RequiredColumn \in DOMAIN dData =>
              dResult.err \notin {"missing_position", "missing_velocity"}

\* a call on position that returned indices from a frame without Velocity
C21_Witness ==
    /\ ValidCall
    /\ dArgs.signal = "position"
    /\ "Velocity" \notin DOMAIN dData
    /\ dResult.err = "none"
    /\ Len(dResult.sep_indices) >= 3

\* ---------------------------------------- a run of main that is carried on
\* the tables, the writes and the clicks of the run that is carried on
LiveTables ==
    {table \in Tables :
        "NeckFlexion" \notin table.columns \/ Len(table.smoothed["Position"]) > padlen}
LiveOutcomes == {"ok", "cycles_dump_fails", "last_open_fails"}
LiveRounds == {<<>>, <<5>>}

\* the operator answers y (or the empty line) at the accept prompt
Accepts == \E answer \in Answers, io \in LiveOutcomes : AcceptAnswer(answer, io)

\* the operator confirms the cuts of a round of manual cutting
Confirms ==
    \E answer \in Answers, io \in LiveOutcomes :
        IsYes(answer, <<"Y">>) /\ Validate(answer, io)

NextLive ==
    \/ Start
    \/ Finish
    \/ GateAsk
    \/ \E table \in LiveTables : BeginRecord(table)
    \/ \E answer \in Answers, table \in LiveTables : ReprocessAnswer(answer, table)
    \/ \E answer \in Answers, io \in LiveOutcomes : AcceptAnswer(answer, io)
    \/ \E answer \in Answers, pattern \in Lines(Patterns), manual \in Answers :
          Retune(answer, NoneOpt, NoneOpt, pattern, manual)
    \/ \E points \in LiveRounds : Ginput(points)
    \/ \E answer \in Answers, io \in LiveOutcomes : Validate(answer, io)

InitLive ==
    /\ InitMain
    /\ opts.fs = 5 /\ opts.threshold = NoneOpt /\ opts.position_col /= ""
    /\ DetectIdle

\* main takes its next step whenever it can; an operator who is asked again
\* and again accepts in the end, and one whose rounds of manual cutting are
\* shown again and again clicks a point and confirms in the end
SpecLive ==
    InitLive /\ [][NextLive]_vars /\ WF_vars(NextLive) /\ SF_vars(Accepts) /\ SF_vars(Confirms)

\* ------------------------- main run again and again on one output directory
\* what the caller may put on the command line after the required options
Argvs ==
    [pattern : {NoneOpt, Some("on_peak")}, signal : {NoneOpt, Some("position")},
     threshold : {NoneOpt, Some(5)}, distance : {NoneOpt, Some(1)}]

\* cli.py lines 10-19: the values click hands to main, with the defaults of
\* --pattern and --signal; argv keeps what the caller wrote
click_options(argv) ==
    [fs |-> 5, position_col |-> "NeckFlexion",
     pattern |-> Typed(argv.pattern, "both"),
     signal |-> Typed(argv.signal, "abs_velocity"),
     threshold |-> argv.threshold, distance |-> argv.distance,
     argv |-> argv]

\* what a write of last_parameters.json may meet
LastOutcomes == {"ok", "last_open_fails", "last_dump_fails"}

\* lines 130-136 of a record saved in this run, as far as last_parameters.json
\* goes: save_last_parameters(output_dir, detection_parameters)
RunSave(io) ==
    /\ pc = "record"
    /\ CASE io = "last_open_fails" -> UNCHANGED <<last_parameters_file, last_written>>
         [] io = "last_dump_fails" -> last_parameters_file' = Partial /\ UNCHANGED last_written
         [] OTHER -> /\ last_parameters_file' = save_last_parameters(detection_parameters)
                     /\ last_written' = Bound(detection_parameters)
    /\ UNCHANGED <<dData, dArgs, dResult, dpc, dHistory, prompted>>
    /\ UNCHANGED <<mvars, hvars, cycle_files, processed_log>>

\* the run is over and main is started again on the same output directory
NextRun(argv) ==
    /\ pc = "record"
    /\ pc' = "start"
    /\ opts' = click_options(argv)
    /\ detection_parameters' = Unbound
    /\ seed' = Unbound
    /\ UNCHANGED <<idx, prepared_data, sep_indices, cuts, retunes>>
    /\ UNCHANGED <<detect_err, sep_from, outcome, detect_calls, declined, reported>>
    /\ UNCHANGED <<fvars, dvars>>

NextRuns ==
    \/ Start
    \/ \E io \in LastOutcomes : RunSave(io)
    \/ \E argv \in Argvs : NextRun(argv)

InitRuns ==
    /\ pc = "start"
    /\ idx = 1
    /\ opts \in {click_options(argv) : argv \in Argvs}
    /\ detection_parameters = Unbound
    /\ prepared_data = Unbound
    /\ sep_indices = Unbound
    /\ cuts = <<>>
    /\ retunes = 0
    /\ cycle_files = [r \in Records |-> NoFile]
    /\ processed_log = <<>>
    /\ last_parameters_file = NoFile
    /\ detect_err = "none"
    /\ sep_from = [record |-> 0, by |-> "nothing"]
    /\ outcome = [r \in Records |-> "pending"]
    /\ seed = Unbound
    /\ detect_calls = 0
    /\ declined = <<>>
    /\ reported = "none"
    /\ DetectIdle

SpecRuns == InitRuns /\ [][NextRuns]_vars

\* ------------------- a run of main, the lines typed at the Y/N prompts kept
\* the lines the operator may type at the accept and the reprocess prompt
AnyAnswers ==
    { <<>>, <<"y">>, <<"Y">>, <<" ", "y">>, <<"Y", " ">>, <<" ">>, <<"n">>, <<"N">>,
      <<"y", "e", "s">>, <<"Y", "E", "S">>, <<"y", "y">>, <<"o", "k">> }

\* where main stands: the record, the prompt and the retunes of the record
Stamp == <<idx, pc, retunes>>

\* the line typed is the answer to the prompt main stands at
Answered == prompted.stamp = Stamp

\* lines 60-61 and 95-96: click.prompt reads a line at the reprocess or at the
\* accept prompt
TypeAnswer(answer) ==
    /\ pc \in {"accept_prompt", "reprocess_prompt"}
    /\ ~Answered
    /\ prompted' = [answer |-> answer, stamp |-> Stamp]
    /\ UNCHANGED <<dData, dArgs, dResult, dpc, dHistory, last_written>>
    /\ UNCHANGED <<mvars, fvars, hvars>>

\* lines 62-63 with the line read
PromptReprocess(table) == Answered /\ ReprocessAnswer(prompted.answer, table)

\* lines 97-98 and 130-136 with the line read
PromptAccept(io) == Answered /\ AcceptAnswer(prompted.answer, io)

\* lines 99-128 with the line read, the parameters left as they are
PromptRetune(manual) ==
    Answered /\ Retune(prompted.answer, NoneOpt, NoneOpt, NoneOpt, manual)

NextPrompt ==
    \/ Start
    \/ Finish
    \/ GateAsk
    \/ \E table \in Tables : BeginRecord(table)
    \/ \E answer \in AnyAnswers : TypeAnswer(answer)
    \/ \E table \in Tables : PromptReprocess(table)
    \/ \E io \in IoOutcomes : PromptAccept(io)
    \/ \E manual \in Answers : PromptRetune(manual)
    \/ \E points \in ClickRounds : Ginput(points)
    \/ \E answer \in Answers, io \in IoOutcomes : Validate(answer, io)

InitPrompt ==
    /\ InitMain
    /\ opts.fs = 5 /\ opts.threshold = NoneOpt /\ opts.position_col /= ""
    /\ DetectIdle

SpecPrompt == InitPrompt /\ [][NextPrompt]_vars

\* ================================================================ main, claims
\* record r was left by the latest step of main
JustLeft(r) == pc = "record" /\ idx = r + 1

\* detect_cycles on the prepared data in memory with the parameters of a document
DetectWith(parameters) ==
    detect_cycles(prepared_data.value, parameters["threshold"], parameters["distance"],
                  parameters["pattern"], parameters["signal"], opts.fs)

\* C1: when a record is saved after the operator accepted the automatic
\* detection, the cycle_indices of its cycles file are what detect_cycles
\* returns for the record's prepared data and the detection_parameters
\* written in the same file.
C1_AcceptedIndicesAreDetectOfSavedParameters ==
    [][(pc = "accept_prompt" /\ outcome'[idx] = "auto") =>
          LET doc == cycle_files'[idx]
              d == DetectWith(doc.detection_parameters)
          IN  d.err = "none" /\ doc.cycle_indices = d.sep_indices]_vars

\* C2: after a failed detection the record stays at the review and leaves it
\* only by a retune (a new detection) or by manual cutting: it is neither
\* aborted nor saved from there.
C2_FailedDetectionLeftByRetuneOrManual ==
    [][(pc = "accept_prompt" /\ detect_err /= "none") =>
          (idx' = idx /\ pc' \in {"accept_prompt", "ginput"})]_vars

\* C3: the boundary set written into a record's cycles file was computed (by
\* detection or by manual cutting) for that record, never for an earlier one.
C3_SavedBoundariesComputedForTheRecord ==
    \A r \in Records :
        (JustLeft(r) /\ outcome[r] \in {"auto", "manual"}) => sep_from.record = r

\* C4: a record that has a cycles file and whose reprocessing the operator
\* declines is skipped with nothing changed: its cycles file, the log and the
\* last parameters file are as before and detect_cycles is not called.
C4_DeclinedRecordChangesNothing ==
    [][(pc = "reprocess_prompt" /\ outcome'[idx] = "skipped") =>
          /\ has_been_processed(idx, cycle_files)
          /\ cycle_files' = cycle_files
          /\ processed_log' = processed_log
          /\ last_parameters_file' = last_parameters_file
          /\ detect_calls' = detect_calls
          /\ detect_calls = 0
          /\ sep_indices' = sep_indices]_vars

\* a record skipped at the gate, its earlier cycles file still in place
C4_Witness ==
    \E r \in Records : outcome[r] = "skipped" /\ cycle_files[r] = PriorCycles(r)

\* C5: the parameters a record starts with are those of the start of the run
\* or of the latest saved record: a skipped or an aborted record, retuned or
\* not, leaves them as they were.
C5_SeedChangesOnlyWhenSaved ==
    pc = "record" => detection_parameters = seed

\* C6: a failure abandons only the record it occurs in: records are resolved
\* one after the other, every record after an aborted one is still taken up,
\* and the run ends after the last record.
C6_FailureAbandonsOnlyItsRecord ==
    /\ pc /= "start" =>
          \A r \in Records : (r < idx) <=> (outcome[r] /= "pending")
    /\ pc = "done" => idx = NumRecords + 1
    /\ idx <= NumRecords + 1

\* a finished run whose first record was aborted and whose second was saved
C6_Witness ==
    /\ pc = "done"
    /\ outcome[1] = "aborted"
    /\ outcome[NumRecords] = "auto"

\* main is inside manual_cutting
InManual == pc \in {"ginput", "validate_prompt"}

\* C12: once manual cutting is requested, detect_cycles is not called again
\* for the record: the record is left straight from the validated cuts, and
\* the cycle_indices then written are the cuts as designated, neither sorted
\* nor completed with 0 and the last index.
C12_ManualResultFrozen ==
    [][InManual =>
          /\ pc' /= "accept_prompt"
          /\ idx' = idx => (InManual' /\ detect_calls' = detect_calls)
          /\ idx' /= idx =>
                /\ pc = "validate_prompt" /\ cuts /= <<>>
                /\ cycle_files' /= cycle_files =>
                      \/ cycle_files'[idx] = Partial
                      \/ cycle_files'[idx].cycle_indices = cuts
                /\ outcome'[idx] = "manual" => cycle_files'[idx].cycle_indices = cuts]_vars

\* a record saved from manual cuts designated in descending order
C12_Witness ==
    \E r \in Records :
        /\ outcome[r] = "manual"
        /\ sep_from = [record |-> r, by |-> "manual"]
        /\ cycle_files[r].cycle_indices = <<4, 1, 0>>

\* int(x[0]) for each point of a round, in the order of designation
Truncated(points) == [i \in 1..Len(points) |-> IntTrunc(points[i], 2)]

\* C13: manual_cutting returns only from a confirmed round of at least one
\* point, and what it returns is that round's points truncated to integers,
\* in the order of designation; a round starts from nothing, a round without
\* points or a declined one starts the designation again, and the points of a
\* declined round are not in the result unless designated again.
C13_ReturnsLatestConfirmedRound ==
    [][/\ pc' = "validate_prompt" =>
             /\ pc = "ginput" /\ cuts = <<>>
             /\ \E points \in ClickRounds : points /= <<>> /\ cuts' = Truncated(points)
       /\ pc = "validate_prompt" =>
             \/ pc' = "ginput" /\ cuts' = <<>> /\ sep_indices' = sep_indices
             \/ /\ idx' = idx + 1
                /\ cuts /= <<>>
                /\ sep_indices' = Bound(cuts)
                /\ sep_from' = [record |-> idx, by |-> "manual"]
       /\ (pc = "ginput" /\ pc' /= "validate_prompt") => UNCHANGED <<pc, idx, sep_indices>>]_vars

\* manual_cutting returned the single point of a round designated after a
\* round of three points was declined
C13_Witness ==
    \E r \in Records :
        /\ outcome[r] /= "pending"
        /\ sep_from = [record |-> r, by |-> "manual"]
        /\ declined = <<4, 1, 0>>
        /\ sep_indices = Bound(<<2>>)

\* C14: a record completed by manual cutting is saved with the parameters of
\* the last detection attempt shown before manual cutting was requested: the
\* request leaves them as they were displayed, nothing changes them during
\* the cutting, and they are what the cycles file and the last parameters
\* file receive.
C14_ManualSavesDisplayedParameters ==
    [][/\ (pc = "accept_prompt" /\ pc' = "ginput") =>
             detection_parameters' = detection_parameters
       /\ (InManual /\ idx' = idx) => detection_parameters' = detection_parameters
       /\ (pc = "validate_prompt" /\ outcome'[idx] = "manual") =>
             /\ cycle_files'[idx].detection_parameters = detection_parameters
             /\ last_parameters_file' = detection_parameters]_vars

\* record r reached the end of lines 130-136
Persisted(r) == outcome[r] \in {"auto", "manual"}

\* the step is the first detection of record idx
FirstDetection == pc \in {"record", "reprocess_prompt"} /\ pc' = "accept_prompt"

\* C15: when a record is saved, last_parameters.json is overwritten with the
\* parameters written in the record's cycles file, within the step that
\* saves the record and so before the gate and any detection of the next
\* record; the first detection of the next record is detect_cycles with
\* exactly these parameters.
C15_LastParametersFollowSavedRecord ==
    [][/\ (idx' = idx + 1 /\ outcome'[idx] \in {"auto", "manual"}) =>
             /\ pc' = "record"
             /\ last_parameters_file' = cycle_files'[idx].detection_parameters
             /\ detection_parameters' = last_parameters_file'
       /\ (FirstDetection /\ idx > 1 /\ Persisted(idx - 1)) =>
             LET p == last_parameters_file
                 d == detect_cycles(prepared_data'.value, p["threshold"], p["distance"],
                                    p["pattern"], p["signal"], opts.fs)
             IN  /\ p = cycle_files[idx - 1].detection_parameters
                 /\ detection_parameters' = p
                 /\ detect_err' = d.err
                 /\ d.err = "none" => sep_indices' = Bound(d.sep_indices)]_vars

\* the second record at its first detection, after the first was saved with a
\* retuned threshold
C15_Witness ==
    /\ pc = "accept_prompt" /\ idx = 2
    /\ detect_calls = 1 /\ retunes = 0
    /\ Persisted(1)
    /\ detection_parameters["threshold"] = 20
    /\ last_parameters_file = detection_parameters
    /\ cycle_files[1].detection_parameters = detection_parameters

\* C16: the cycles file a record already has is replaced only by the step
\* that saves the record in full: it is unchanged while the record is gated,
\* detected, reviewed, retuned or cut manually, and unchanged when the
\* reprocessing is aborted by an error.
C16_PriorArtifactReplacedOnlyWhenSaved ==
    [][(idx <= NumRecords /\ has_been_processed(idx, cycle_files)
          /\ cycle_files'[idx] /= cycle_files[idx]) =>
             outcome'[idx] \in {"auto", "manual"}]_vars

\* the step leaves record idx
Leaves == idx' = idx + 1

\* the row of record idx with the parameters its cycles file receives
RowOfRecord == log_row(idx, detection_parameters)

IsPrefix(s, t) == Len(s) <= Len(t) /\ SubSeq(t, 1, Len(s)) = s

\* C18: the log is only appended to: whatever the step (a record processed,
\* processed again, skipped or aborted), the rows written before it are
\* still there afterwards, unchanged and in the same order.
C18_LogAppendOnly ==
    [][IsPrefix(processed_log, processed_log')]_vars

\* a finished run that processed again a record with an earlier row and then
\* processed the next record: three rows, the earlier one first
C18_Witness ==
    /\ pc = "done"
    /\ Len(processed_log) = 3
    /\ processed_log[1] = log_row(1, PriorParameters)
    /\ processed_log[2].record_name = 1
    /\ processed_log[3].record_name = 2

\* C22: has_been_processed(name) follows the cycles file of that name alone: a
\* step in which save_cycle_data writes the file of a record leaves it true
\* for that record, a record whose file is absent before and after a step is
\* not processed, and a step that leaves the file of a record alone (whatever
\* it does to the files of other records, to the log and to the last
\* parameters) leaves the answer for that record as it was.
C22_ProcessedIffCyclesFileExists ==
    [][\A r \in Records :
          /\ cycle_files'[r] /= cycle_files[r] => has_been_processed(r, cycle_files')
          /\ (cycle_files[r] = NoFile /\ cycle_files'[r] = NoFile) =>
                ~has_been_processed(r, cycle_files')
          /\ cycle_files'[r] = cycle_files[r] =>
                has_been_processed(r, cycle_files') = has_been_processed(r, cycle_files)]_vars

\* the first record was saved in this run, with its log row and the last
\* parameters, and the second record, never saved, is not processed
C22_Witness ==
    /\ outcome[1] = "auto"
    /\ has_been_processed(1, cycle_files)
    /\ cycle_files[2] = NoFile
    /\ ~has_been_processed(2, cycle_files)
    /\ processed_log /= <<>>
    /\ last_parameters_file \notin {NoFile, Partial}

\* the rows of the log that name a record
RowsOf(r) == SelectSeq(processed_log, LAMBDA row : row.record_name = r)

\* C23: a step in which save_cycle_data writes the cycles file of a record
\* leaves a document that reads back as exactly the record name, the
\* detection parameters and the indices it was handed, together with the
\* timestamp of the write; nothing of the document that was there remains.
C23_CyclesFileReadsBackAsHanded ==
    [][(idx \in Records /\ cycle_files'[idx] \notin {cycle_files[idx], Partial}) =>
          LET doc == cycle_files'[idx]
          IN  /\ DOMAIN doc = {"record_name", "detection_parameters", "cycle_indices", "timestamp"}
              /\ doc.record_name = idx
              /\ doc.detection_parameters = detection_parameters
              /\ doc.cycle_indices = sep_indices'.value
              /\ doc.timestamp = Now]_vars

\* the first record had a cycles file of an earlier run (it has two rows in
\* the log), was cut by hand, and its file now holds the cuts as clicked
C23_Witness ==
    /\ Len(RowsOf(1)) = 2
    /\ outcome[1] = "manual"
    /\ cycle_files[1] /= Partial
    /\ cycle_files[1].cycle_indices = <<4, 1, 0>>
    /\ cycle_files[1].timestamp = Now

\* C24: load_last_parameters returns the default when last_parameters.json
\* does not exist, and, after a save_last_parameters that completed (and no
\* later write that tore the file), exactly the parameters that call was handed.
C24_LoadReturnsLatestWritten ==
    /\ last_parameters_file = NoFile =>
          load_last_parameters(last_parameters_file) = default_parameters
    /\ (last_written /= Unbound /\ last_parameters_file /= Partial) =>
          load_last_parameters(last_parameters_file) = last_written.value

\* a run started without --threshold after a run that saved threshold 0.5:
\* what it loaded carries the stored threshold and the signal key
C24_Witness ==
    /\ pc = "record"
    /\ last_written /= Unbound
    /\ last_parameters_file = last_written.value
    /\ load_last_parameters(last_parameters_file)["signal"] = "position"
    /\ opts.argv.threshold = NoneOpt
    /\ seed["threshold"] = 5

\* the caller wrote neither --threshold nor --distance nor --pattern
NothingExplicit ==
    /\ opts.argv.threshold = NoneOpt
    /\ opts.argv.distance = NoneOpt
    /\ opts.argv.pattern = NoneOpt

\* C25: when a run starts without an explicit threshold, distance or pattern
\* on a directory where an earlier run stored its parameters, the seed of the
\* first record has the stored threshold, distance and pattern.
C25_SeedIsWhatThePreviousRunStored ==
    [][(pc = "start" /\ pc' = "record" /\ NothingExplicit
          /\ last_parameters_file \notin {NoFile, Partial}) =>
             /\ seed'["threshold"] = last_parameters_file["threshold"]
             /\ seed'["distance"] = last_parameters_file["distance"]
             /\ seed'["pattern"] = last_parameters_file["pattern"]]_vars

\* C26: as the unit tests assert it, the sequence detect_cycles returns holds
\* the selected indices (the peaks, the midpoints, or both in ascending
\* order) and no other element; on_peak over [0,1,0,1,0,1,0] with threshold
\* 0.5 and distance 1.0 returns exactly [1,3,5].
C26_ReturnsSelectedIndicesOnly ==
    /\ Returned => dResult.sep_indices = Ascending(SelectedIndices)
    /\ (dpc = "returned" /\ dData = ScenarioA /\ dArgs = ScenarioArgs("on_peak")) =>
          dResult = [err |-> "none", sep_indices |-> <<1, 3, 5>>]

C28_FailedRecordLeavesNoTrace ==
    [][(idx \in Records /\ outcome[idx] = "pending" /\ outcome'[idx] = "aborted") =>
          /\ cycle_files' = cycle_files
          /\ processed_log' = processed_log
          /\ last_parameters_file' = last_parameters_file]_vars

\* the step is a retune: the operator answered N at the accept prompt
Retunes == pc = "accept_prompt" /\ retunes' = retunes + 1

\* C29: a retune leaves the keys of the parameter set and its signal as they
\* were, and each of threshold, distance and pattern is afterwards the value
\* it had or one the operator can type at its prompt; a retune that does not
\* go to manual cutting is followed, within the same step and before the
\* accept prompt is shown again, by one more call of detect_cycles with the
\* updated parameters, whose outcome is the one displayed.
C29_RetuneChangesOnlyWhatIsTyped ==
    [][Retunes =>
          /\ DOMAIN detection_parameters' = DOMAIN detection_parameters
          /\ detection_parameters'["signal"] = detection_parameters["signal"]
          /\ detection_parameters'["threshold"] \in {detection_parameters["threshold"]} \cup Thresholds
          /\ detection_parameters'["distance"] \in {detection_parameters["distance"]} \cup Distances
          /\ detection_parameters'["pattern"] \in {detection_parameters["pattern"]} \cup Patterns
          /\ pc' \in {"accept_prompt", "ginput"}
          /\ pc' = "accept_prompt" =>
                LET d == detect_cycles(prepared_data.value, detection_parameters'["threshold"],
                                       detection_parameters'["distance"],
                                       detection_parameters'["pattern"],
                                       detection_parameters'["signal"], opts.fs)
                IN  /\ detect_calls' = detect_calls + 1
                    /\ detect_err' = d.err
                    /\ d.err = "none" => sep_indices' = Bound(d.sep_indices)]_vars

\* the accept prompt after a retune at which the pattern was typed and the
\* threshold and the distance given on the command line were left as they were
C29_Witness ==
    /\ pc = "accept_prompt"
    /\ idx = 1
    /\ retunes = 1
    /\ detect_calls = 2
    /\ opts.threshold = Some(5)
    /\ detection_parameters["threshold"] = 5
    /\ detection_parameters["distance"] = 1
    /\ detection_parameters["pattern"] = "between_peak"
    /\ detection_parameters["signal"] = "position"

\* C30: every index a peak contributes to a returned result (the inner
\* elements under on_peak, the peaks among them under both) lies strictly
\* between the first and the last sample, holds a value that reaches the
\* threshold, and holds a value not smaller than either of its neighbours.
C30_PeaksAreInnerHighLocalMaxima ==
    (Returned /\ dArgs.pattern \in {"on_peak", "both"}) =>
        LET x == CalledSeries
            P == IF dArgs.pattern = "on_peak" THEN ReturnedInner ELSE Elements(CalledPeaks)
        IN  /\ P \subseteq ReturnedInner
            /\ \A i \in P :
                  /\ 0 < i
                  /\ i < Len(x) - 1
                  /\ At(x, i) >= dArgs.threshold
                  /\ At(x, i) >= At(x, i - 1)
                  /\ At(x, i) >= At(x, i + 1)

\* an on_peak result over a series whose first sample is above every other
\* one: the peaks reported are lower than the first sample
C30_Witness ==
    /\ Returned
    /\ dArgs.pattern = "on_peak"
    /\ ReturnedInner /= {}
    /\ \A i \in 1..(Len(CalledSeries) - 1) : At(CalledSeries, i) < At(CalledSeries, 0)
    /\ At(CalledSeries, 0) >= dArgs.threshold

Magnitudes(v) == [i \in 1..Len(v) |-> IF v[i] < 0 THEN 0 - v[i] ELSE v[i]]

\* the call made, on another frame and another signal
CalledOn(frame, signal) ==
    detect_cycles(frame, dArgs.threshold, dArgs.distance, dArgs.pattern, signal, dArgs.fs)

\* the frames that hold the velocity series v and another Position column, or
\* none
OtherPositions(v) ==
    { [Velocity |-> v],
      [Position |-> <<>>, Velocity |-> v],
      [Position |-> [i \in 1..Len(v) |-> 10 - v[i]], Velocity |-> v] }

\* C32: a call with signal abs_velocity returns what a call with signal
\* velocity returns on the frame whose Velocity column holds the absolute
\* values, threshold, distance and pattern being the same; and the result of
\* a call with signal velocity or abs_velocity is the same whatever the
\* Position column holds. On the velocity [0,-1,0,1,0,-1,0] with threshold
\* 0.5 and pattern on_peak, abs_velocity gives [0,1,3,5,6].
C32_AbsVelocityIsVelocityOfMagnitudes ==
    (dpc = "returned" /\ dArgs.signal \in {"velocity", "abs_velocity"}) =>
        LET v == dData["Velocity"]
        IN  /\ dArgs.signal = "abs_velocity" =>
                  dResult = CalledOn([Position |-> dData["Position"],
                                      Velocity |-> Magnitudes(v)], "velocity")
            /\ \A frame \in OtherPositions(v) : dResult = CalledOn(frame, dArgs.signal)
            /\ (dData = ScenarioA
                   /\ dArgs = [ScenarioArgs("on_peak") EXCEPT !.signal = "abs_velocity"]) =>
                  dResult = [err |-> "none", sep_indices |-> <<0, 1, 3, 5, 6>>]

\* an abs_velocity call that returned an index where the velocity is negative
C32_Witness ==
    /\ Returned
    /\ dArgs.signal = "abs_velocity"
    /\ \E i \in ReturnedInner :
          /\ At(dData["Velocity"], i) < 0
          /\ 0 - At(dData["Velocity"], i) >= dArgs.threshold

\* the lines that read y once trimmed and lower-cased
SaysYes(line) == line \in {<<"y">>, <<"Y">>, <<" ", "y">>, <<"Y", " ">>}

\* C33: at the accept prompt the empty line and the lines that read y once
\* trimmed and lower-cased go on to save the record, and every other line
\* (yes and a blank among them) is a retune; at the reprocess prompt only the
\* lines that read y process the record again, and every other line, the
\* empty one included, skips it.
C33_EmptyAcceptsAndDeclinesReprocessing ==
    [][(Answered /\ Stamp' /= Stamp) =>
          LET line == prompted.answer
          IN  /\ pc = "accept_prompt" =>
                    IF line = <<>> \/ SaysYes(line)
                    THEN idx' = idx + 1 /\ outcome'[idx] \in {"auto", "aborted"}
                    ELSE /\ idx' = idx
                         /\ retunes' = retunes + 1
                         /\ pc' \in {"accept_prompt", "ginput"}
                         /\ outcome'[idx] = "pending"
              /\ pc = "reprocess_prompt" =>
                    IF SaysYes(line)
                    THEN \/ idx' = idx /\ pc' = "accept_prompt"
                         \/ reported' = "prepare" /\ outcome'[idx] = "aborted"
                    ELSE idx' = idx + 1 /\ outcome'[idx] = "skipped"]_vars

\* the empty line was typed at the accept prompt of the first record's first
\* detection, and the record is saved
C33_Witness ==
    /\ prompted = [answer |-> <<>>, stamp |-> <<1, "accept_prompt", 0>>]
    /\ outcome[1] = "auto"
    /\ has_been_processed(1, cycle_files)

\* record r is resolved: saved, skipped or aborted
Resolved(r) == outcome[r] \in {"auto", "manual", "skipped", "aborted"}

\* C34: with an operator who accepts and confirms in the end the run comes to
\* its end; the records before the current one are resolved and the ones
\* from it on are not begun, so that at the end every record is resolved; a
\* record is resolved once, in the step that goes on to the next record, and
\* the records are taken one by one in the order of the list.
C34_RunEndsWithEveryRecordResolved ==
    /\ <>(pc = "done")
    /\ [](\A r \in Records : IF r < idx THEN Resolved(r) ELSE outcome[r] = "pending")
    /\ [](pc = "done" => idx = NumRecords + 1)
    /\ [][/\ idx' \in {idx, idx + 1}
          /\ \A r \in Records : Resolved(r) => outcome'[r] = outcome[r]
          /\ \A r \in Records : (~Resolved(r) /\ Resolved(r)') => (r = idx /\ idx' = idx + 1)]_vars

\* the end of a run that cut its first record by hand and skipped the second
C34_Witness ==
    /\ pc = "done"
    /\ outcome[1] = "manual"
    /\ outcome[2] = "skipped"
    /\ \A r \in Records : Resolved(r)

====
